---- MODULE Spec2Model ----
(***************************************************************************)
(* Think-tracker: sessions, captured messages and full-text search.        *)
(*                                                                         *)
(* The store is the PostgreSQL database of src/src/db/schema.sql; the      *)
(* operations are the exported functions of the db module                  *)
(* (src/unnamed/part_000).  Every pool.query is one SQL statement and so   *)
(* one atomic step; searchMessages issues two statements (count, page)     *)
(* with an await between them, so other statements may run in between.     *)
(* A finished search hands its result to the caller (searchReturn) before  *)
(* the next statement is taken, so that a result is always read against    *)
(* the tables its page statement saw.                                      *)
(***************************************************************************)
EXTENDS Integers, Sequences, FiniteSets, TLC

\* ------------------------------------------------------------------ bounds
MaxSessions == 2
MaxMsgs == 2
MaxTime == 1

\* ------------------------------------------------------------ input domains
SessionIds == 1..MaxSessions
NoSession == 0                    \* an absent (undefined) sessionId option
Names == {"alpha", "beta"}
ROLES == {"user", "assistant", "system"}
RoleInputs == {"user", "assistant", "tool"}
RoleFilters == {"", "user"}       \* "" is falsy: no role condition
Contents == {<<"run", "cat">>, <<"the", "cat">>}
\* thinking text after normalisation: <<>> is SQL NULL, <<t>> the text t
Thinkings == {<<>>, <<(<<"running">>)>>}
Queries == {<<"run">>, <<"run", "cat">>, <<"the">>}
SessionFilters == {NoSession, 1}
\* <<limit, offset>> arguments
Pages == {<<1, 1>>, <<MaxMsgs, 0>>}

\* ------------------------------------------------------------------- state
VARIABLES
    sessions,       \* table sessions: id -> row
    messages,       \* table messages: id -> row (without search_vector)
    search_vector,  \* generated column + GIN index: message id -> tsvector
    nextMsg,        \* number of message ids produced so far
    nextSession,    \* number of session ids produced so far
    now,            \* the database clock, NOW()
    search,         \* the searchMessages call in flight
    deleted,        \* session ids for which deleteSession returned true
    captureFailed,  \* the last captureMessage call threw
    columns,        \* table messages, the token and tool_calls columns
    reply,          \* the analytics call that has just been answered
    headline,       \* the snippet columns of one result row being computed
    session_times   \* table sessions, the started_at and ended_at columns

vars == <<sessions, messages, search_vector, nextMsg, nextSession, now,
          search, deleted, captureFailed, columns, reply, headline,
          session_times>>

\* what the search specification does not follow: its messages carry no
\* token or tool_calls columns, its sessions no time columns, and it makes no
\* analytics call
untracked == <<columns, reply, headline, session_times>>

store == <<sessions, messages, search_vector>>

\* ------------------------------------------------- text search (PostgreSQL)
StopWords == {"the"}

Stem(w) == IF w = "running" THEN "run" ELSE w

\* to_tsvector('english', text): stop words dropped (their positions still
\* count), the other words stemmed
to_tsvector(text) ==
    {[lex |-> Stem(text[i]), pos |-> i] :
        i \in {j \in 1..Len(text) : text[j] \notin StopWords}}

setweight(v, w) == {[lex |-> e.lex, pos |-> e.pos, w |-> w] : e \in v}

MaxPos(v) ==
    IF v = {} THEN 0
    ELSE CHOOSE p \in {e.pos : e \in v} : \A e \in v : e.pos <= p

\* tsvector || tsvector: positions of the right operand are shifted
Concat(a, b) ==
    a \cup {[lex |-> e.lex, pos |-> e.pos + MaxPos(a), w |-> e.w] : e \in b}

\* COALESCE(thinking_content, '')
Coalesce(opt) == IF opt = <<>> THEN <<>> ELSE opt[1]

SearchVector(content, thinking) ==
    Concat(setweight(to_tsvector(content), "A"),
           setweight(to_tsvector(Coalesce(thinking)), "B"))

\* plainto_tsquery('english', q): the stems of the non-stop words, ANDed
plainto_tsquery(q) ==
    {Stem(q[i]) : i \in {j \in 1..Len(q) : q[j] \notin StopWords}}

Lexemes(v) == {e.lex : e \in v}

\* faulty variant: any one query lexeme suffices
MatchesAny(v, tsq) == tsq \cap Lexemes(v) # {}

\* tsvector @@ tsquery; a query without lexemes matches nothing
Matches(v, tsq) == tsq # {} /\ tsq \subseteq Lexemes(v)

\* faulty variant: no weighting, a lexeme counts the same wherever it stands
WeightFlat(w) == 10

\* ts_rank weights {D, C, B, A} = {0.1, 0.2, 0.4, 1.0}, times 10
Weight(w) == IF w = "A" THEN 10 ELSE 4

RECURSIVE SumOver(_, _)
SumOver(S, f) ==
    IF S = {} THEN 0
    ELSE LET x == CHOOSE y \in S : TRUE IN f[x] + SumOver(S \ {x}, f)

\* One query lexeme's share of ts_rank (calc_rank_or): with the lexeme's
\* occurrences e_1..e_n in position order, wjm + sum_j w(e_j)/j^2 - wjm/jm^2,
\* where wjm is the largest weight and jm the first occurrence carrying it.
\* Scaled by 36 so that the divisions by 1, 4 and 9 are exact.
RankOfLexeme(v, t) ==
    LET E == {e \in v : e.lex = t}
        Idx(e) == Cardinality({f \in E : f.pos <= e.pos})
        wjm == CHOOSE w \in {Weight(e.w) : e \in E} :
                   \A e \in E : Weight(e.w) <= w
        jm == CHOOSE j \in {Idx(e) : e \in E} :
                   /\ \E e \in E : Idx(e) = j /\ Weight(e.w) = wjm
                   /\ \A e \in E : Weight(e.w) = wjm => j <= Idx(e)
        resj == SumOver(E, [e \in E |-> (36 * Weight(e.w)) \div (Idx(e) * Idx(e))])
    IN  IF E = {} THEN 0
        ELSE 36 * wjm + resj - (36 * wjm) \div (jm * jm)

\* ts_rank(search_vector, plainto_tsquery(q)), up to the positive factor
\* 1 / (1.64493 * number of query lexemes * 360) that is the same for every
\* row of one query.  (For a several-lexeme query PostgreSQL adds a proximity
\* term; the per-lexeme sum is kept as the rank of such queries.)
ts_rank(v, tsq) == SumOver(tsq, [t \in tsq |-> RankOfLexeme(v, t)])

\* -------------------------------------------------------------- the tables
\* no analytics call answered and not yet taken by its caller
NoReply == [op |-> "none", arg |-> 0, ok |-> TRUE, value |-> <<>>]

\* no result row whose snippets are being computed
NoHeadline == [pc |-> "none"]

\* no searchMessages call in flight
IdleSearch ==
    [pc |-> "idle", query |-> <<>>, sessionId |-> NoSession, role |-> "",
     limit |-> 0, offset |-> 0, total |-> 0, results |-> <<>>,
     counted |-> {}, stale |-> FALSE]

Init ==
    /\ sessions = <<>>
    /\ messages = <<>>
    /\ search_vector = <<>>
    /\ nextMsg = 0
    /\ nextSession = 0
    /\ now = 0
    /\ search = IdleSearch
    /\ deleted = {}
    /\ captureFailed = FALSE
    /\ columns = <<>>
    /\ reply = NoReply
    /\ headline = NoHeadline
    /\ session_times = <<>>

\* a write statement that takes effect between the two statements of a
\* search makes that search stale
Touch(s) == IF s.pc = "counted" THEN [s EXCEPT !.stale = TRUE] ELSE s

\* the database clock advances between statements
Tick ==
    /\ search.pc # "done"
    /\ now < MaxTime
    /\ now' = now + 1
    /\ UNCHANGED <<sessions, messages, search_vector, nextMsg, nextSession,
                   search, deleted, captureFailed>>

\* createSession: INSERT INTO sessions ... RETURNING *; ids are fresh
createSession(name) ==
    /\ search.pc # "done"
    /\ nextSession < MaxSessions
    /\ nextSession' = nextSession + 1
    /\ sessions' = (nextSession + 1 :> [name |-> name]) @@ sessions
    /\ UNCHANGED <<messages, search_vector, nextMsg, now, search, deleted,
                   captureFailed>>

Restrict(f, S) == [x \in S |-> f[x]]

\* faulty variant: a soft delete: reported as done, nothing removed
deleteSessionSoft(id) ==
    LET found == id \in DOMAIN sessions
    IN  /\ search.pc # "done"
        /\ deleted' = IF found THEN deleted \cup {id} ELSE deleted
        /\ search' = IF found THEN Touch(search) ELSE search
        /\ UNCHANGED <<sessions, messages, search_vector, nextMsg, nextSession,
                       now, captureFailed>>

\* faulty variant: the rows go, their index entries stay behind
deleteSessionKeepIndex(id) ==
    LET found == id \in DOMAIN sessions
        keep == {m \in DOMAIN messages : messages[m].session_id # id}
    IN  /\ search.pc # "done"
        /\ sessions' = Restrict(sessions, DOMAIN sessions \ {id})
        /\ messages' = Restrict(messages, keep)
        /\ deleted' = IF found THEN deleted \cup {id} ELSE deleted
        /\ search' = IF found THEN Touch(search) ELSE search
        /\ UNCHANGED <<search_vector, nextMsg, nextSession, now, captureFailed>>

\* faulty variant: a removal caught half way: the thinking entries of the session's
\* messages are gone from the index, the rows are still there
deleteSessionHalf(id) ==
    LET found == id \in DOMAIN sessions
    IN  /\ search.pc # "done"
        /\ search_vector' =
              [m \in DOMAIN search_vector |->
                  IF messages[m].session_id = id
                  THEN {e \in search_vector[m] : e.w = "A"}
                  ELSE search_vector[m]]
        /\ deleted' = IF found THEN deleted \cup {id} ELSE deleted
        /\ search' = IF found THEN Touch(search) ELSE search
        /\ UNCHANGED <<sessions, messages, nextMsg, nextSession, now,
                       captureFailed>>

\* deleteSession: DELETE FROM sessions WHERE id = $1, with the cascade of
\* messages.session_id (ON DELETE CASCADE) and of the rows' index entries;
\* returns rowCount > 0
deleteSession(id) ==
    LET found == id \in DOMAIN sessions
        keep == {m \in DOMAIN messages : messages[m].session_id # id}
    IN  /\ search.pc # "done"
        /\ sessions' = Restrict(sessions, DOMAIN sessions \ {id})
        /\ messages' = Restrict(messages, keep)
        /\ search_vector' = Restrict(search_vector, DOMAIN search_vector \cap keep)
        /\ deleted' = IF found THEN deleted \cup {id} ELSE deleted
        /\ search' = IF found THEN Touch(search) ELSE search
        /\ UNCHANGED <<nextMsg, nextSession, now, captureFailed>>

\* faulty variant: the row is written before the role is checked, and stays when
\* the check throws
captureMessagePartial(session_id, role, content, thinking) ==
    LET id == nextMsg + 1
        row == [session_id |-> session_id, role |-> role, content |-> content,
                thinking_content |-> thinking, created_at |-> now]
    IN  /\ search.pc # "done"
        /\ nextMsg < MaxMsgs
        /\ IF session_id \in DOMAIN sessions
           THEN /\ messages' = (id :> row) @@ messages
                /\ search_vector' =
                      IF role \in ROLES
                      THEN (id :> SearchVector(content, thinking)) @@ search_vector
                      ELSE search_vector
                /\ nextMsg' = nextMsg + 1
                /\ search' = Touch(search)
                /\ captureFailed' = (role \notin ROLES)
           ELSE /\ UNCHANGED <<messages, search_vector, nextMsg, search>>
                /\ captureFailed' = TRUE
        /\ UNCHANGED <<sessions, nextSession, now, deleted>>

\* faulty variant: the row is stored at once, its index entries are left for later
captureMessageDeferredIndex(session_id, role, content, thinking) ==
    LET ok == session_id \in DOMAIN sessions /\ role \in ROLES
        id == nextMsg + 1
        row == [session_id |-> session_id, role |-> role, content |-> content,
                thinking_content |-> thinking, created_at |-> now]
    IN  /\ search.pc # "done"
        /\ nextMsg < MaxMsgs
        /\ IF ok
           THEN /\ messages' = (id :> row) @@ messages
                /\ nextMsg' = nextMsg + 1
                /\ search' = Touch(search)
                /\ captureFailed' = FALSE
                /\ UNCHANGED search_vector
           ELSE /\ UNCHANGED <<messages, search_vector, nextMsg, search>>
                /\ captureFailed' = TRUE
        /\ UNCHANGED <<sessions, nextSession, now, deleted>>

\* faulty variant: the row is stored whether or not its session exists
captureMessageNoForeignKey(session_id, role, content, thinking) ==
    LET ok == role \in ROLES
        id == nextMsg + 1
        row == [session_id |-> session_id, role |-> role, content |-> content,
                thinking_content |-> thinking, created_at |-> now]
    IN  /\ search.pc # "done"
        /\ nextMsg < MaxMsgs
        /\ IF ok
           THEN /\ messages' = (id :> row) @@ messages
                /\ search_vector' = (id :> SearchVector(content, thinking))
                                        @@ search_vector
                /\ nextMsg' = nextMsg + 1
                /\ search' = Touch(search)
                /\ captureFailed' = FALSE
           ELSE /\ UNCHANGED <<messages, search_vector, nextMsg, search>>
                /\ captureFailed' = TRUE
        /\ UNCHANGED <<sessions, nextSession, now, deleted>>

\* captureMessage: one INSERT INTO messages ... RETURNING *.  The statement
\* fails as a whole when the foreign key (session_id) or the CHECK on role is
\* violated; otherwise the row is stored with its generated search_vector.
captureMessage(session_id, role, content, thinking) ==
    LET ok == session_id \in DOMAIN sessions /\ role \in ROLES
        id == nextMsg + 1
        row == [session_id |-> session_id, role |-> role, content |-> content,
                thinking_content |-> thinking, created_at |-> now]
    IN  /\ search.pc # "done"
        /\ nextMsg < MaxMsgs
        /\ IF ok
           THEN /\ messages' = (id :> row) @@ messages
                /\ search_vector' = (id :> SearchVector(content, thinking))
                                        @@ search_vector
                /\ nextMsg' = nextMsg + 1
                /\ search' = Touch(search)
                /\ captureFailed' = FALSE
           ELSE /\ UNCHANGED <<messages, search_vector, nextMsg, search>>
                /\ captureFailed' = TRUE
        /\ UNCHANGED <<sessions, nextSession, now, deleted>>

\* ------------------------------------------------------------ searchMessages
\* faulty variant: a sessionId filter replaces the conditions instead of adding one
WhereFilterReplaces(m, q, sessionId, role) ==
    /\ m \in DOMAIN search_vector
    /\ messages[m].session_id \in DOMAIN sessions
    /\ IF sessionId # NoSession
       THEN messages[m].session_id = sessionId
       ELSE Matches(search_vector[m], plainto_tsquery(q))
    /\ (role # "" => messages[m].role = role)

\* faulty variant: a sessionId that names no session adds no condition
WhereSkipsUnknownSession(m, q, sessionId, role) ==
    /\ m \in DOMAIN search_vector
    /\ messages[m].session_id \in DOMAIN sessions
    /\ Matches(search_vector[m], plainto_tsquery(q))
    /\ (sessionId \in DOMAIN sessions => messages[m].session_id = sessionId)
    /\ (role # "" => messages[m].role = role)

\* WHERE search_vector @@ plainto_tsquery($1) [AND m.session_id = $2]
\* [AND m.role = $3], over messages m JOIN sessions s ON m.session_id = s.id.
\* A falsy sessionId or role option adds no condition.
Where(m, q, sessionId, role) ==
    /\ m \in DOMAIN search_vector
    /\ messages[m].session_id \in DOMAIN sessions
    /\ Matches(search_vector[m], plainto_tsquery(q))
    /\ (sessionId # NoSession => messages[m].session_id = sessionId)
    /\ (role # "" => messages[m].role = role)

Candidates(q, sessionId, role) ==
    {m \in DOMAIN messages : Where(m, q, sessionId, role)}

\* faulty variant: the count taken over the page instead of over all candidates
CountQueryPaged(q, sessionId, role, limit, offset) ==
    LET n == Cardinality(Candidates(q, sessionId, role))
    IN  IF n <= offset THEN 0
        ELSE IF n - offset <= limit THEN n - offset ELSE limit

\* SELECT COUNT(*) ... WHERE whereClause
CountQuery(q, sessionId, role, limit, offset) ==
    Cardinality(Candidates(q, sessionId, role))

\* one row of the page query's SELECT list
Row(m, q) ==
    [id |-> m,
     session_id |-> messages[m].session_id,
     session_name |-> sessions[messages[m].session_id].name,
     role |-> messages[m].role,
     created_at |-> messages[m].created_at,
     rank |-> ts_rank(search_vector[m], plainto_tsquery(q))]

\* faulty variant: ORDER BY rank DESC, m.created_at ASC
OrderByOldestFirst(a, b) ==
    \/ a.rank > b.rank
    \/ a.rank = b.rank /\ a.created_at <= b.created_at

\* ORDER BY rank DESC, m.created_at DESC
OrderBy(a, b) ==
    \/ a.rank > b.rank
    \/ a.rank = b.rank /\ a.created_at >= b.created_at

\* every sequence the ORDER BY allows for the candidate rows: rows that tie
\* on (rank, created_at) come in an order the database is free to choose
OrderedRows(q, sessionId, role) ==
    LET C == Candidates(q, sessionId, role)
        n == Cardinality(C)
    IN  {[i \in 1..n |-> Row(f[i], q)] :
            f \in {g \in [1..n -> C] :
                    /\ \A i, j \in 1..n : i # j => g[i] # g[j]
                    /\ \A i \in 1..n : i < n =>
                           OrderBy(Row(g[i], q), Row(g[i + 1], q))}}

Min(a, b) == IF a <= b THEN a ELSE b

\* LIMIT $n OFFSET $m
LimitOffset(rows, limit, offset) ==
    SubSeq(rows, offset + 1, Min(Len(rows), offset + limit))

\* first statement: the count; the call's arguments are fixed here
searchCount(q, sessionId, role, limit, offset) ==
    /\ search.pc = "idle"
    /\ search' = [pc |-> "counted", query |-> q, sessionId |-> sessionId,
                  role |-> role, limit |-> limit, offset |-> offset,
                  total |-> CountQuery(q, sessionId, role, limit, offset),
                  results |-> <<>>,
                  counted |-> Candidates(q, sessionId, role),
                  stale |-> FALSE]
    /\ UNCHANGED <<sessions, messages, search_vector, nextMsg, nextSession,
                   now, deleted, captureFailed>>

\* second statement: the ranked page; the call returns {results, total}
searchPage ==
    /\ search.pc = "counted"
    /\ \E rows \in OrderedRows(search.query, search.sessionId, search.role) :
          search' = [search EXCEPT
                        !.pc = "done",
                        !.results = LimitOffset(rows, search.limit, search.offset)]
    /\ UNCHANGED <<sessions, messages, search_vector, nextMsg, nextSession,
                   now, deleted, captureFailed>>

\* the caller has taken the result; the next statement of any caller follows
searchReturn ==
    /\ search.pc = "done"
    /\ search' = IdleSearch
    /\ UNCHANGED <<sessions, messages, search_vector, nextMsg, nextSession,
                   now, deleted, captureFailed>>

\* ----------------------------------------------------------- specification
Next ==
    \/ Tick /\ UNCHANGED untracked
    \/ \E name \in Names : createSession(name) /\ UNCHANGED untracked
    \/ \E id \in SessionIds : deleteSession(id) /\ UNCHANGED untracked
    \/ \E s \in SessionIds, r \in RoleInputs, c \in Contents, t \in Thinkings :
          captureMessage(s, r, c, t) /\ UNCHANGED untracked
    \/ \E q \in Queries, s \in SessionFilters, r \in RoleFilters, p \in Pages :
          searchCount(q, s, r, p[1], p[2]) /\ UNCHANGED untracked
    \/ searchPage /\ UNCHANGED untracked
    \/ searchReturn /\ UNCHANGED untracked

Spec == Init /\ [][Next]_vars

\* ------------------------------------------------------------------ analytics
\* The analytics functions read the token and tool_calls columns of messages.
\* The analytics specification follows these columns and takes the clock over
\* several calendar days; a message's content is of no interest to it.
MaxDay == 1

\* the clock counts half days
TicksPerDay == 2
MinutesPerTick == 720

\* DATE(created_at), CURRENT_DATE
DATE(t) == t \div TicksPerDay

\* one element of tool_calls; an absent key is <<>>, a present one <<value>>
ToolCall(name, duration_ms, error) ==
    [name |-> name, duration_ms |-> duration_ms, error |-> error]

\* the token and tool_calls columns as captureMessage stores them
Extras ==
    {[thinking_tokens |-> 0, input_tokens |-> 0, tool_calls |-> <<>>],
     [thinking_tokens |-> 4, input_tokens |-> 3,
      tool_calls |-> <<ToolCall(<<"bash">>, <<100>>, <<>>),
                       ToolCall(<<"bash">>, <<200>>, <<>>)>>],
     [thinking_tokens |-> 1, input_tokens |-> 2,
      tool_calls |-> <<ToolCall(<<"bash">>, <<>>, <<"failed">>)>>],
     [thinking_tokens |-> 0, input_tokens |-> 1,
      tool_calls |-> <<ToolCall(<<>>, <<40>>, <<>>),
                       ToolCall(<<"grep">>, <<50>>, <<"failed">>)>>]}

StatsNames == {"alpha"}
StatsContents == {<<"run", "cat">>}
StatsQueries == {<<"run">>}
DaysArgs == {0, 1}

\* captureMessage, the INSERT with all its columns
captureMessageColumns(session_id, role, content, thinking, extra) ==
    /\ reply.op = "none"
    /\ captureMessage(session_id, role, content, thinking)
    /\ columns' = IF nextMsg' # nextMsg
                  THEN (nextMsg' :> extra) @@ columns
                  ELSE columns
    /\ UNCHANGED <<reply, headline, session_times>>

\* deleteSession, the cascade taking the whole rows
deleteSessionColumns(id) ==
    /\ reply.op = "none"
    /\ deleteSession(id)
    /\ columns' = Restrict(columns, DOMAIN columns \cap DOMAIN messages')
    /\ UNCHANGED <<reply, headline, session_times>>

\* the database clock advances between statements, here over several days
TickDays ==
    /\ reply.op = "none"
    /\ search.pc # "done"
    /\ now < (MaxDay + 1) * TicksPerDay - 1
    /\ now' = now + 1
    /\ UNCHANGED <<sessions, messages, search_vector, nextMsg, nextSession,
                   search, deleted, captureFailed, columns, reply, headline,
                   session_times>>

\* AVG(x): NULL over no values, else the quotient num / den
Avg(S, f) ==
    IF S = {} THEN <<>>
    ELSE <<[num |-> SumOver(S, f), den |-> Cardinality(S)]>>

\* the rows of a result set in one order that ORDER BY key DESC allows
Descending(rows, key) ==
    {f \in [1..Cardinality(rows) -> rows] :
        /\ \A i, j \in DOMAIN f : i # j => f[i] # f[j]
        /\ \A i, j \in DOMAIN f : i < j => key[f[i]] >= key[f[j]]}

\* faulty variant: the statement stamps the rows it has read
AnswerStamping(op, arg, ok, value) ==
    /\ reply.op = "none"
    /\ search.pc # "done"
    /\ reply' = [op |-> op, arg |-> arg, ok |-> ok, value |-> value]
    /\ messages' = [m \in DOMAIN messages |->
                       [messages[m] EXCEPT !.created_at = now]]
    /\ UNCHANGED <<sessions, search_vector, nextMsg, nextSession,
                   now, search, deleted, captureFailed, columns, headline,
                   session_times>>

\* a read statement is answered: the store is as it was
Answer(op, arg, ok, value) ==
    /\ reply.op = "none"
    /\ search.pc # "done"
    /\ reply' = [op |-> op, arg |-> arg, ok |-> ok, value |-> value]
    /\ UNCHANGED <<sessions, messages, search_vector, nextMsg, nextSession,
                   now, search, deleted, captureFailed, columns, headline,
                   session_times>>

\* faulty variant: AVG(thinking_tokens) without the FILTER
OverallRowUnfiltered ==
    LET M == DOMAIN columns
        thinking == [m \in M |-> columns[m].thinking_tokens]
        input == [m \in M |-> columns[m].input_tokens]
        avg == Avg(M, thinking)
    IN  [total_sessions |-> Cardinality(DOMAIN sessions),
         total_messages |-> Cardinality(DOMAIN messages),
         total_thinking_tokens |-> SumOver(M, thinking),
         total_input_tokens |-> SumOver(M, input),
         avg_thinking_tokens_per_message |->
             IF avg = <<>> THEN [num |-> 0, den |-> 1] ELSE avg[1]]

\* getOverallStats: one aggregate row over messages; parseInt / parseFloat of
\* its columns.  (total_output_tokens is summed as total_input_tokens is.)
OverallRow ==
    LET M == DOMAIN columns
        thinking == [m \in M |-> columns[m].thinking_tokens]
        input == [m \in M |-> columns[m].input_tokens]
        avg == Avg({m \in M : columns[m].thinking_tokens > 0}, thinking)
    IN  [total_sessions |-> Cardinality(DOMAIN sessions),
         total_messages |-> Cardinality(DOMAIN messages),
         total_thinking_tokens |-> SumOver(M, thinking),
         total_input_tokens |-> SumOver(M, input),
         avg_thinking_tokens_per_message |->
             IF avg = <<>> THEN [num |-> 0, den |-> 1] ELSE avg[1]]

\* a pool.query that rejects makes the function throw
getOverallStats ==
    \/ Answer("getOverallStats", 0, TRUE, OverallRow)
    \/ Answer("getOverallStats", 0, FALSE, <<>>)

\* the view daily_stats: one row per DATE(created_at) that has a message
daily_stats ==
    LET On(d) == {m \in DOMAIN messages : DATE(messages[m].created_at) = d}
    IN  {[date |-> d,
          sessions |-> Cardinality({messages[m].session_id : m \in On(d)}),
          messages |-> Cardinality(On(d)),
          thinking_tokens |->
              SumOver(On(d), [m \in On(d) |-> columns[m].thinking_tokens]),
          input_tokens |->
              SumOver(On(d), [m \in On(d) |-> columns[m].input_tokens])] :
            d \in {DATE(messages[m].created_at) : m \in DOMAIN messages}}

\* faulty variant: the view read without the WHERE
DailyWindowUnbounded(days) == daily_stats

\* WHERE date >= CURRENT_DATE - $1::interval, with $1 = '<days> days'
DailyWindow(days) == {r \in daily_stats : r.date >= DATE(now) - days}

\* getDailyStats: SELECT * FROM daily_stats WHERE ... ORDER BY date DESC
getDailyStats(days) ==
    \/ \E rows \in Descending(DailyWindow(days),
                               [r \in DailyWindow(days) |-> r.date]) :
          Answer("getDailyStats", days, TRUE, rows)
    \/ Answer("getDailyStats", days, FALSE, <<>>)

\* FROM messages, jsonb_array_elements(tool_calls) as tool_call
ToolCallRecords ==
    UNION {{<<m, i>> : i \in 1..Len(columns[m].tool_calls)} :
              m \in DOMAIN columns}

tool_call(c) == columns[c[1]].tool_calls[c[2]]

\* faulty variant: a record without a duration enters the average as 0
ToolUsageRowsZeroFilled ==
    LET group(n) == {c \in ToolCallRecords : tool_call(c).name = n}
        ms(c) == IF tool_call(c).duration_ms = <<>> THEN 0
                 ELSE tool_call(c).duration_ms[1]
    IN  {[tool_name |-> n,
          call_count |-> Cardinality(group(n)),
          avg_duration_ms |-> Avg(group(n), [c \in group(n) |-> ms(c)]),
          error_count |->
              Cardinality({c \in group(n) : tool_call(c).error # <<>>})] :
            n \in {tool_call(c).name : c \in ToolCallRecords}}

\* GROUP BY tool_call->>'name': the records without a name have the key NULL
\* and make one group
ToolUsageRows ==
    LET group(n) == {c \in ToolCallRecords : tool_call(c).name = n}
        timed(n) == {c \in group(n) : tool_call(c).duration_ms # <<>>}
    IN  {[tool_name |-> n,
          call_count |-> Cardinality(group(n)),
          avg_duration_ms |->
              Avg(timed(n), [c \in timed(n) |-> tool_call(c).duration_ms[1]]),
          error_count |->
              Cardinality({c \in group(n) : tool_call(c).error # <<>>})] :
            n \in {tool_call(c).name : c \in ToolCallRecords}}

\* getToolUsageStats: ... ORDER BY call_count DESC
getToolUsageStats ==
    \/ \E rows \in Descending(ToolUsageRows,
                               [r \in ToolUsageRows |-> r.call_count]) :
          Answer("getToolUsageStats", 0, TRUE, rows)
    \/ Answer("getToolUsageStats", 0, FALSE, <<>>)

Max(a, b) == IF a >= b THEN a ELSE b

\* the aggregate query of getSessionStats: there is no GROUP BY, so the
\* result has one row whatever the WHERE keeps; MAX - MIN over no row is NULL.
\* (output_tokens is summed as input_tokens is.)
SessionStatsRows(sessionId) ==
    LET M == {m \in DOMAIN messages : messages[m].session_id = sessionId}
        at == {messages[m].created_at : m \in M}
        first == CHOOSE t \in at : \A u \in at : t <= u
        last == CHOOSE t \in at : \A u \in at : t >= u
    IN  <<[message_count |-> Cardinality(M),
           thinking_tokens |->
               SumOver(M, [m \in M |-> columns[m].thinking_tokens]),
           input_tokens |->
               SumOver(M, [m \in M |-> columns[m].input_tokens]),
           tool_calls |->
               SumOver(M, [m \in M |-> Len(columns[m].tool_calls)]),
           duration_minutes |->
               IF M = {} THEN <<>> ELSE <<(last - first) * MinutesPerTick>>]>>

\* if (result.rows.length === 0) return null; otherwise the row with
\* duration_minutes: parseFloat(row.duration_minutes) || 0.
\* The value is <<>> for null and <<stats>> for a stats object.
SessionStatsValue(rows) ==
    IF Len(rows) = 0 THEN <<>>
    ELSE <<[rows[1] EXCEPT !.duration_minutes =
                IF @ = <<>> THEN 0 ELSE @[1]]>>

getSessionStats(sessionId) ==
    \/ Answer("getSessionStats", sessionId, TRUE,
              SessionStatsValue(SessionStatsRows(sessionId)))
    \/ Answer("getSessionStats", sessionId, FALSE, <<>>)

\* a statement of searchMessages rejects: the call throws
searchThrows ==
    /\ reply.op = "none"
    /\ search.pc \in {"idle", "counted"}
    /\ search' = IdleSearch
    /\ reply' = [op |-> "searchMessages", arg |-> 0, ok |-> FALSE,
                 value |-> <<>>]
    /\ UNCHANGED <<sessions, messages, search_vector, nextMsg, nextSession,
                   now, deleted, captureFailed, columns, headline,
                   session_times>>

\* the caller has taken the answer
takeReply ==
    /\ reply.op # "none"
    /\ reply' = NoReply
    /\ UNCHANGED <<sessions, messages, search_vector, nextMsg, nextSession,
                   now, search, deleted, captureFailed, columns, headline,
                   session_times>>

NextStats ==
    \/ TickDays
    \/ \E name \in StatsNames :
          reply.op = "none" /\ createSession(name) /\ UNCHANGED untracked
    \/ \E id \in SessionIds : deleteSessionColumns(id)
    \/ \E s \in SessionIds, c \in StatsContents, e \in Extras :
          captureMessageColumns(s, "user", c, <<>>, e)
    \/ getOverallStats
    \/ \E days \in DaysArgs : getDailyStats(days)
    \/ getToolUsageStats
    \/ \E id \in SessionIds : getSessionStats(id)
    \/ \E q \in StatsQueries :
          /\ reply.op = "none"
          /\ searchCount(q, NoSession, "", MaxMsgs, 0)
          /\ UNCHANGED untracked
    \/ reply.op = "none" /\ searchPage /\ UNCHANGED untracked
    \/ reply.op = "none" /\ searchReturn /\ UNCHANGED untracked
    \/ searchThrows
    \/ takeReply

SpecStats == Init /\ [][NextStats]_vars

\* -------------------------------------------------------------------- snippets
\* ts_headline('english', text, plainto_tsquery('english', $1),
\*             'MaxWords=50, MinWords=20, StartSel=<mark>, StopSel=</mark>')
\* A text is its sequence of words; a snippet is a sequence of words in which
\* StartSel and StopSel stand around every word of the query.
MinWords == 20
MaxWords == 50
\* ShortWord, left at its default: a word this short is no place to end on
ShortWord == 3
StartSel == "<mark>"
StopSel == "</mark>"

MaxFieldWords == 52

\* a word of the text that is a query term
Interesting(text, tsq, i) ==
    text[i] \notin StopWords /\ Stem(text[i]) \in tsq

BadEndpoint(text, tsq, i) ==
    Len(text[i]) <= ShortWord /\ ~Interesting(text, tsq, i)

\* the words p..q satisfy the query
Satisfies(text, tsq, p, q) ==
    tsq # {} /\ \A t \in tsq : \E i \in p..q :
                   Interesting(text, {t}, i)

\* the covers: from each query term of the text, the shortest stretch that
\* satisfies the query
Covers(text, tsq) ==
    {c \in (1..Len(text)) \X (1..Len(text)) :
        /\ c[1] <= c[2]
        /\ Interesting(text, tsq, c[1])
        /\ Satisfies(text, tsq, c[1], c[2])
        /\ \A r \in c[1]..(c[2] - 1) : ~Satisfies(text, tsq, c[1], r)}

\* faulty variant: lengthening goes on past MaxWords until the headline ends well
RECURSIVE LengthenPastMax(_, _, _, _, _, _)
LengthenPastMax(text, tsq, q, i, curlen, pose) ==
    IF i > Len(text) THEN <<curlen, pose>>
    ELSE LET c == IF i > q THEN curlen + 1 ELSE curlen
         IN  IF ~BadEndpoint(text, tsq, i) /\ c >= MinWords THEN <<c, i>>
             ELSE LengthenPastMax(text, tsq, q, i + 1, c, i)

\* lengthen the headline to the right of the cover's end q until it has
\* min_words words and ends well, or is full, or the text ends
RECURSIVE Lengthen(_, _, _, _, _, _)
Lengthen(text, tsq, q, i, curlen, pose) ==
    IF i > Len(text) \/ curlen >= MaxWords THEN <<curlen, pose>>
    ELSE LET c == IF i > q THEN curlen + 1 ELSE curlen
         IN  IF ~BadEndpoint(text, tsq, i) /\ c >= MinWords THEN <<c, i>>
             ELSE Lengthen(text, tsq, q, i + 1, c, i)

\* lengthen it to the left of the cover's start: the new first word
RECURSIVE LengthenLeft(_, _, _, _)
LengthenLeft(text, tsq, i, curlen) ==
    IF i < 1 THEN 1
    ELSE IF curlen + 1 >= MaxWords THEN i
    ELSE IF ~BadEndpoint(text, tsq, i) /\ curlen + 1 >= MinWords THEN i
    ELSE LengthenLeft(text, tsq, i - 1, curlen + 1)

\* a full headline gives up words at its end to avoid ending badly
RECURSIVE Shorten(_, _, _, _, _)
Shorten(text, tsq, i, curlen, pose) ==
    IF curlen > MinWords /\ BadEndpoint(text, tsq, i)
    THEN Shorten(text, tsq, i - 1, curlen - 1, i - 1)
    ELSE pose

\* the headline [b, e] grown from the cover [p, q], with the number of query
\* terms in it
Fragment(text, tsq, p, q) ==
    LET k == Min(q - p + 1, MaxWords)
        right == Lengthen(text, tsq, q, q, k, q)
        b == IF k < MaxWords /\ right[1] < MinWords
             THEN LengthenLeft(text, tsq, p - 1, right[1])
             ELSE p
        e == IF k < MaxWords THEN right[2]
             ELSE Shorten(text, tsq, Min(p + k, q), k, p + k - 1)
    IN  [b |-> b, e |-> e,
         poslen |-> Cardinality({i \in b..e : Interesting(text, tsq, i)})]

\* the words b..e with the query terms marked
RECURSIVE Marked(_, _, _, _)
Marked(text, tsq, b, e) ==
    IF b > e THEN <<>>
    ELSE (IF Interesting(text, tsq, b)
          THEN <<StartSel, text[b], StopSel>>
          ELSE <<text[b]>>) \o Marked(text, tsq, b + 1, e)

\* ts_headline: the fragment with the most query terms (any one of them when
\* several have as many); without a cover, the first MinWords words
ts_headline(text, q) ==
    LET tsq == plainto_tsquery(q)
        F == {Fragment(text, tsq, c[1], c[2]) : c \in Covers(text, tsq)}
        best == {f \in F : \A g \in F : g.poslen <= f.poslen}
    IN  IF F = {}
        THEN {Marked(text, tsq, 1, Min(Len(text), MinWords))}
        ELSE {Marked(text, tsq, f.b, f.e) : f \in best}

\* the fields whose snippets are taken: n words, "running" as word a and the
\* word w as word b (0: nowhere), the other words long, short or alternating
Filler(fill, i) ==
    IF fill = "long" \/ (fill = "mixed" /\ i % 2 = 1) THEN "walked" ELSE "the"

Field(n, a, b, w, fill) ==
    [i \in 1..n |-> IF i = a THEN "running"
                    ELSE IF i = b THEN w
                    ELSE Filler(fill, i)]

FieldLengths ==
    {0, 1, MinWords - 1, MinWords, MinWords + 1, MaxWords, MaxWords + 1,
     MaxFieldWords}

Places(n) == {0, 1, 2, MinWords + 1, MaxWords, n} \cap 0..n

HeadlineContents ==
    UNION {{Field(n, a, b, w, fill) :
                a \in Places(n), b \in Places(n),
                w \in {"run", "cat"}, fill \in {"long", "short", "mixed"}} :
            n \in FieldLengths}

HeadlineThinkings ==
    {<<>>, <<(<<"running", "cat">>)>>,
     <<Field(MinWords + 1, 0, 0, "run", "long")>>}

HeadlineQueries == {<<"run">>, <<"run", "cat">>}

\* a row that the page query's WHERE has kept
selectRow(content, thinking, q, searchThinking) ==
    /\ headline.pc = "none"
    /\ Matches(SearchVector(content, thinking), plainto_tsquery(q))
    /\ headline' = [pc |-> "row", content |-> content,
                    thinking_content |-> thinking, query |-> q,
                    searchThinking |-> searchThinking,
                    content_snippet |-> <<>>, thinking_snippet |-> <<>>]
    /\ UNCHANGED <<sessions, messages, search_vector, nextMsg, nextSession,
                   now, search, deleted, captureFailed, columns, reply,
                   session_times>>

\* faulty variant: the thinking snippet is taken whatever searchThinking says
snippetColumnsBoth ==
    /\ headline.pc = "row"
    /\ \E c \in ts_headline(headline.content, headline.query) :
       \E t \in ts_headline(Coalesce(headline.thinking_content),
                            headline.query) :
          headline' = [headline EXCEPT !.pc = "done",
                                       !.content_snippet = <<c>>,
                                       !.thinking_snippet = <<t>>]
    /\ UNCHANGED <<sessions, messages, search_vector, nextMsg, nextSession,
                   now, search, deleted, captureFailed, columns, reply,
                   session_times>>

\* the snippet columns of the SELECT list; <<>> is NULL, <<s>> the snippet s
snippetColumns ==
    /\ headline.pc = "row"
    /\ \E c \in ts_headline(headline.content, headline.query) :
       \E t \in IF headline.searchThinking
                THEN {<<s>> : s \in ts_headline(Coalesce(headline.thinking_content),
                                                headline.query)}
                ELSE {<<>>} :
          headline' = [headline EXCEPT !.pc = "done",
                                       !.content_snippet = <<c>>,
                                       !.thinking_snippet = t]
    /\ UNCHANGED <<sessions, messages, search_vector, nextMsg, nextSession,
                   now, search, deleted, captureFailed, columns, reply,
                   session_times>>

\* the row is handed over
takeRow ==
    /\ headline.pc = "done"
    /\ headline' = NoHeadline
    /\ UNCHANGED <<sessions, messages, search_vector, nextMsg, nextSession,
                   now, search, deleted, captureFailed, columns, reply,
                   session_times>>

NextHeadline ==
    \/ \E c \in HeadlineContents, t \in HeadlineThinkings,
          q \in HeadlineQueries, f \in BOOLEAN : selectRow(c, t, q, f)
    \/ snippetColumns
    \/ takeRow

SpecHeadline == Init /\ [][NextHeadline]_vars

\* ----------------------------------------------- callers of searchMessages
\* PAGINATION
DEFAULT_LIMIT == 50
MAX_LIMIT == 100
DEFAULT_OFFSET == 0

\* A query-string value is a sequence of characters; <<>> stands for an absent
\* parameter too (parseInt gives NaN for both).  A number option is <<>> when
\* absent (undefined) and <<n>> otherwise; NaN is <<>> as well.
Digits == <<"0", "1", "2", "3", "4", "5", "6", "7", "8", "9">>

IsDigit(c) == \E d \in 1..10 : Digits[d] = c

DigitValue(c) == (CHOOSE d \in 1..10 : Digits[d] = c) - 1

\* the value of the digits s[1..n], base 10
RECURSIVE Decimal(_, _)
Decimal(s, n) ==
    IF n = 0 THEN 0 ELSE 10 * Decimal(s, n - 1) + DigitValue(s[n])

\* parseInt(s, 10): an optional sign, then the longest run of digits; what
\* follows is ignored, and no digit at all gives NaN
parseInt(s) ==
    LET signed == Len(s) > 0 /\ s[1] \in {"-", "+"}
        body == IF signed THEN Tail(s) ELSE s
        n == Cardinality({k \in 1..Len(body) :
                              \A i \in 1..k : IsDigit(body[i])})
    IN  IF n = 0 THEN <<>>
        ELSE IF signed /\ s[1] = "-" THEN <<0 - Decimal(body, n)>>
        ELSE <<Decimal(body, n)>>

\* x || d on a number: NaN and 0 are falsy
OrElse(x, d) == IF x = <<>> \/ x[1] = 0 THEN d ELSE x[1]

parsePagination(limitStr, offsetStr, maxLimit) ==
    [limit |-> Min(maxLimit, Max(1, OrElse(parseInt(limitStr), DEFAULT_LIMIT))),
     offset |-> Max(0, OrElse(parseInt(offsetStr), DEFAULT_OFFSET))]

\* SearchSchema accepts the limit and offset arguments
SearchSchema(limit, offset) ==
    /\ limit # <<>> => limit[1] >= 1 /\ limit[1] <= MAX_LIMIT
    /\ offset # <<>> => offset[1] >= 0

\* searchMessages(query, options) up to its first statement: the defaults of
\* the options, then the count.  reply follows the call: who made it and the
\* searchThinking option it runs with.
searchMessages(caller, query, limit, offset, searchThinking) ==
    /\ reply.op = "none"
    /\ searchCount(query, NoSession, "",
                   IF limit = <<>> THEN 50 ELSE limit[1],
                   IF offset = <<>> THEN 0 ELSE offset[1])
    /\ reply' = [op |-> caller,
                 arg |-> IF searchThinking = <<>> THEN TRUE
                         ELSE searchThinking[1],
                 ok |-> TRUE, value |-> <<>>]
    /\ UNCHANGED <<columns, headline, session_times>>

\* GET /api/search as the first version of the route parses its parameters
getApiSearchFirst(q, limit, offset, search_thinking) ==
    searchMessages("GET /api/search (first)", q,
                   <<Min(OrElse(parseInt(limit), 50), 100)>>,
                   <<OrElse(parseInt(offset), 0)>>,
                   <<search_thinking # "false">>)

\* GET /api/search, routes/search.ts
getApiSearch(q, limit, offset, search_thinking) ==
    LET pagination == parsePagination(limit, offset, MAX_LIMIT)
    IN  searchMessages("GET /api/search", q, <<pagination.limit>>,
                       <<pagination.offset>>, <<search_thinking # "false">>)

\* tracker_search: the schema rejects the arguments or fills in the defaults
tracker_search(q, limit, offset, search_thinking) ==
    IF SearchSchema(limit, offset)
    THEN searchMessages("tracker_search", q,
                        IF limit = <<>> THEN <<DEFAULT_LIMIT>> ELSE limit,
                        IF offset = <<>> THEN <<DEFAULT_OFFSET>> ELSE offset,
                        IF search_thinking = <<>> THEN <<TRUE>>
                        ELSE search_thinking)
    ELSE /\ reply.op = "none"
         /\ search.pc = "idle"
         /\ reply' = [op |-> "tracker_search", arg |-> TRUE, ok |-> FALSE,
                      value |-> <<>>]
         /\ UNCHANGED <<sessions, messages, search_vector, nextMsg,
                        nextSession, now, search, deleted, captureFailed,
                        columns, headline, session_times>>

\* the snippet columns a result row can get
Snippets(m, q, searchThinking) ==
    {[content_snippet |-> c, thinking_snippet |-> t] :
        c \in ts_headline(messages[m].content, q),
        t \in IF searchThinking
              THEN {<<s>> : s \in ts_headline(
                                    Coalesce(messages[m].thinking_content), q)}
              ELSE {<<>>}}

\* faulty variant: without searchThinking only content matches are kept
PageResultsContentOnly(q, sessionId, role, limit, offset, searchThinking) ==
    LET kept(rows) ==
            SelectSeq(rows,
                LAMBDA r : searchThinking \/
                           Matches(setweight(to_tsvector(messages[r.id].content),
                                             "A"),
                                   plainto_tsquery(q)))
        pages == {LimitOffset(kept(rows), limit, offset) :
                     rows \in OrderedRows(q, sessionId, role)}
    IN  UNION {{[i \in 1..Len(p) |-> p[i] @@ f[i]] :
                  f \in {g \in [1..Len(p) ->
                                UNION {Snippets(p[j].id, q, searchThinking) :
                                          j \in 1..Len(p)}] :
                          \A i \in 1..Len(p) :
                              g[i] \in Snippets(p[i].id, q, searchThinking)}} :
               p \in pages}

\* the pages the second statement can return: the rows in an order the
\* ORDER BY allows, LIMIT and OFFSET applied, each with its snippet columns
PageResults(q, sessionId, role, limit, offset, searchThinking) ==
    LET pages == {LimitOffset(rows, limit, offset) :
                     rows \in OrderedRows(q, sessionId, role)}
    IN  UNION {{[i \in 1..Len(p) |-> p[i] @@ f[i]] :
                  f \in {g \in [1..Len(p) ->
                                UNION {Snippets(p[j].id, q, searchThinking) :
                                          j \in 1..Len(p)}] :
                          \A i \in 1..Len(p) :
                              g[i] \in Snippets(p[i].id, q, searchThinking)}} :
               p \in pages}

\* faulty variant: a page that ends with the last match still has more
hasMoreInclusive(total, offset, resultCount) == total >= offset + resultCount

\* has_more of the tracker_search answer
hasMore(total, offset, resultCount) == total > offset + resultCount

\* second statement: PostgreSQL raises an error for a negative LIMIT or
\* OFFSET and the call throws; otherwise the call returns {results, total},
\* to which tracker_search adds has_more
selectPage ==
    /\ search.pc = "counted"
    /\ IF search.limit < 0 \/ search.offset < 0
       THEN /\ search' = [search EXCEPT !.pc = "done"]
            /\ reply' = [reply EXCEPT !.ok = FALSE]
       ELSE \E p \in PageResults(search.query, search.sessionId,
                                 search.role, search.limit, search.offset,
                                 reply.arg) :
               /\ search' = [search EXCEPT !.pc = "done", !.results = p]
               /\ reply' = [reply EXCEPT !.value =
                               IF reply.op = "tracker_search"
                               THEN <<hasMore(search.total, search.offset,
                                              Len(p))>>
                               ELSE <<>>]
    /\ UNCHANGED <<sessions, messages, search_vector, nextMsg, nextSession,
                   now, deleted, captureFailed, columns, headline,
                   session_times>>

\* the caller has the answer: the results, the error or the rejection
answered ==
    /\ reply.op # "none"
    /\ search.pc \in {"idle", "done"}
    /\ search' = IdleSearch
    /\ reply' = NoReply
    /\ UNCHANGED <<sessions, messages, search_vector, nextMsg, nextSession,
                   now, deleted, captureFailed, columns, headline,
                   session_times>>

CallQueries == {<<"run">>}
\* limit and offset as query-string values and as numbers
CallStrings == {<<>>, <<"1">>, <<"-", "1">>, <<"1", "0", "1", "x">>}
CallNumbers == {<<>>, <<1>>, <<-1>>}
CallFlagStrings == {"true", "false"}
CallFlags == {<<>>, <<FALSE>>}

NextCalls ==
    \/ Tick /\ UNCHANGED untracked
    \/ createSession("alpha") /\ UNCHANGED untracked
    \/ \E id \in SessionIds : deleteSession(id) /\ UNCHANGED untracked
    \/ \E c \in Contents, t \in Thinkings :
          captureMessage(1, "user", c, t) /\ UNCHANGED untracked
    \/ \E q \in CallQueries, l, o \in CallStrings, f \in CallFlagStrings :
          getApiSearchFirst(q, l, o, f)
    \/ \E q \in CallQueries, l, o \in CallStrings, f \in CallFlagStrings :
          getApiSearch(q, l, o, f)
    \/ \E q \in CallQueries, l, o \in CallNumbers, f \in CallFlags :
          tracker_search(q, l, o, f)
    \/ \E q \in CallQueries, l, o \in CallNumbers, f \in CallFlags :
          searchMessages("searchMessages", q, l, o, f)
    \/ selectPage
    \/ answered

SpecCalls == Init /\ [][NextCalls]_vars

\* ----------------------------------------------- callers of captureMessage
\* A string is a sequence of words and line breaks; "" is <<>>.  An input
\* field that takes a string or an array of strings is undefined, a string
\* (one item) or an array (its items).  A number field is <<>> when undefined
\* and <<n>> otherwise.
NewLine == "\n"

Undefined == [type |-> "undefined", items |-> <<>>]
String(s) == [type |-> "string", items |-> <<s>>]
Array(ss) == [type |-> "array", items |-> ss]

\* a ?? b
Nullish(a, b) == IF a.type = "undefined" THEN b ELSE a

\* a ?? b on number fields
NullishNumber(a, b) == IF a = <<>> THEN b ELSE a

\* items.join('\n')
RECURSIVE Join(_)
Join(items) ==
    IF Len(items) = 0 THEN <<>>
    ELSE IF Len(items) = 1 THEN items[1]
    ELSE items[1] \o <<NewLine>> \o Join(Tail(items))

\* normalizeThinkingContent: <<>> is null, <<s>> the string s.  !value holds
\* for undefined and for the empty string, never for an array.
normalizeThinkingContent(value) ==
    IF value.type = "undefined" THEN <<>>
    ELSE IF value.type = "string"
    THEN IF value.items[1] = <<>> THEN <<>> ELSE <<value.items[1]>>
    ELSE <<Join(SelectSeq(value.items, LAMBDA s : s # <<>>))>>

\* thinking_tokens ?? thinking_token_count ?? thoughts_token_count ?? 0
normalizedThinkingTokens(input) ==
    NullishNumber(input.thinking_tokens,
        NullishNumber(input.thinking_token_count,
            NullishNumber(input.thoughts_token_count, <<0>>)))[1]

\* the words of a stored string, as the search vector's parser sees them
WordsOf(s) == SelectSeq(s, LAMBDA w : w # NewLine)

\* the columns of the INSERT that the search model does not carry
InsertColumns(input) ==
    [thinking_content |->
         normalizeThinkingContent(
             Nullish(input.thinking_content,
                 Nullish(input.thinking_text,
                     Nullish(input.thinking, input.thoughts)))),
     thinking_tokens |-> normalizedThinkingTokens(input),
     input_tokens |-> OrElse(input.input_tokens, 0),
     output_tokens |-> OrElse(input.output_tokens, 0),
     tool_calls |-> <<>>]

\* captureMessage(input); reply holds the call and the id of the row returned
captureMessageInput(caller, input) ==
    LET row == InsertColumns(input)
    IN  /\ reply.op = "none"
        /\ captureMessage(input.session_id, input.role, input.content,
                          IF row.thinking_content = <<>> THEN <<>>
                          ELSE <<WordsOf(row.thinking_content[1])>>)
        /\ columns' = IF nextMsg' # nextMsg
                      THEN (nextMsg' :> row) @@ columns
                      ELSE columns
        /\ reply' = [op |-> caller, arg |-> input, ok |-> ~captureFailed',
                     value |-> IF captureFailed' THEN <<>> ELSE <<nextMsg'>>]
        /\ UNCHANGED <<headline, session_times>>

\* the call is answered with a validation error; nothing reaches the database
rejected(caller, input) ==
    /\ reply.op = "none"
    /\ search.pc # "done"
    /\ reply' = [op |-> caller, arg |-> input, ok |-> FALSE, value |-> <<>>]
    /\ UNCHANGED <<sessions, messages, search_vector, nextMsg, nextSession,
                   now, search, deleted, captureFailed, columns, headline,
                   session_times>>

\* validateMessageInput: session_id, role and content, nothing else
validateMessageInput(input) ==
    /\ input.session_id # NoSession
    /\ input.role \in ROLES
    /\ input.content # <<>>

\* POST /api/messages
postApiMessages(input) ==
    IF validateMessageInput(input)
    THEN captureMessageInput("POST /api/messages", input)
    ELSE rejected("POST /api/messages", input)

\* CaptureMessageSchema
CaptureMessageSchema(input) ==
    /\ input.role \in ROLES
    /\ input.thinking_content.type # "array"
    /\ \A n \in {input.thinking_tokens, input.thinking_token_count,
                 input.thoughts_token_count, input.input_tokens,
                 input.output_tokens} : n # <<>> => n[1] >= 0

\* tracker_capture_message
tracker_capture_message(params) ==
    IF CaptureMessageSchema(params)
    THEN captureMessageInput("tracker_capture_message", params)
    ELSE rejected("tracker_capture_message", params)

\* the thinking fields of an input
ThinkingInputs ==
    LET none == [thinking_content |-> Undefined, thinking_text |-> Undefined,
                 thinking |-> Undefined, thoughts |-> Undefined]
    IN  {none,
         [none EXCEPT !.thinking_content = String(<<"running">>)],
         [none EXCEPT !.thinking_content = String(<<>>),
                      !.thinking_text = String(<<"running">>)],
         [none EXCEPT !.thinking_text = Array(<<(<<"running">>), <<"cat">>>>),
                      !.thoughts = String(<<"cat">>)],
         [none EXCEPT !.thinking = Array(<<(<<>>), <<"cat">>>>)],
         [none EXCEPT !.thoughts = Array(<<>>)],
         [none EXCEPT !.thinking_content = Array(<<(<<"running">>)>>)]}

\* the token fields of an input
TokenInputs ==
    LET none == [thinking_tokens |-> <<>>, thinking_token_count |-> <<>>,
                 thoughts_token_count |-> <<>>, input_tokens |-> <<>>,
                 output_tokens |-> <<>>]
    IN  {none,
         [none EXCEPT !.thinking_tokens = <<0>>,
                      !.thinking_token_count = <<5>>],
         [none EXCEPT !.thoughts_token_count = <<7>>, !.input_tokens = <<3>>],
         [none EXCEPT !.thinking_tokens = <<-5>>],
         [none EXCEPT !.input_tokens = <<-1>>, !.output_tokens = <<-2>>]}

CaptureInputs ==
    {[session_id |-> 1, role |-> r, content |-> <<"run", "cat">>] @@ t @@ n :
        r \in {"user", "tool"}, t \in ThinkingInputs, n \in TokenInputs}

NextCapture ==
    \/ createSession("alpha") /\ UNCHANGED untracked
    \/ deleteSessionColumns(1)
    \/ \E input \in CaptureInputs : postApiMessages(input)
    \/ \E params \in CaptureInputs : tracker_capture_message(params)
    \/ takeReply

SpecCapture == Init /\ [][NextCapture]_vars

\* --------------------------------------------------------- session lifecycle
\* createSession with the time columns: started_at DEFAULT NOW(), ended_at NULL
createSessionTimes(name) ==
    /\ reply.op = "none"
    /\ createSession(name)
    /\ session_times' = (nextSession' :> [started_at |-> now, ended_at |-> <<>>])
                            @@ session_times
    /\ UNCHANGED <<columns, reply, headline>>

\* faulty variant: ended_at is set to the time the database was started
endSessionEpoch(id) ==
    LET found == id \in DOMAIN sessions
    IN  /\ reply.op = "none"
        /\ search.pc # "done"
        /\ session_times' = IF found
                            THEN [session_times EXCEPT ![id].ended_at = <<0>>]
                            ELSE session_times
        /\ reply' = [op |-> "endSession", arg |-> id, ok |-> TRUE,
                     value |-> IF found THEN <<session_times'[id]>> ELSE <<>>]
        /\ UNCHANGED <<sessions, messages, search_vector, nextMsg, nextSession,
                       now, search, deleted, captureFailed, columns, headline>>

\* faulty variant: the session's messages are stamped with the end time too
endSessionStamping(id) ==
    LET found == id \in DOMAIN sessions
    IN  /\ reply.op = "none"
        /\ search.pc # "done"
        /\ session_times' = IF found
                            THEN [session_times EXCEPT ![id].ended_at = <<now>>]
                            ELSE session_times
        /\ messages' = [m \in DOMAIN messages |->
                           IF messages[m].session_id = id
                           THEN [messages[m] EXCEPT !.created_at = now]
                           ELSE messages[m]]
        /\ reply' = [op |-> "endSession", arg |-> id, ok |-> TRUE,
                     value |-> IF found THEN <<session_times'[id]>> ELSE <<>>]
        /\ UNCHANGED <<sessions, search_vector, nextMsg, nextSession,
                       now, search, deleted, captureFailed, columns, headline>>

\* endSession: UPDATE sessions SET ended_at = NOW() WHERE id = $1
\* RETURNING *; the answer is the row, or null (<<>>) when no row has the id
endSession(id) ==
    LET found == id \in DOMAIN sessions
    IN  /\ reply.op = "none"
        /\ search.pc # "done"
        /\ session_times' = IF found
                            THEN [session_times EXCEPT ![id].ended_at = <<now>>]
                            ELSE session_times
        /\ reply' = [op |-> "endSession", arg |-> id, ok |-> TRUE,
                     value |-> IF found THEN <<session_times'[id]>> ELSE <<>>]
        /\ UNCHANGED <<sessions, messages, search_vector, nextMsg, nextSession,
                       now, search, deleted, captureFailed, columns, headline>>

\* faulty variant: the answer is true whatever the statement removed
deleteSessionTimesAlwaysTrue(id) ==
    /\ reply.op = "none"
    /\ deleteSession(id)
    /\ columns' = Restrict(columns, DOMAIN columns \cap DOMAIN messages')
    /\ session_times' = Restrict(session_times, DOMAIN sessions')
    /\ reply' = [op |-> "deleteSession", arg |-> id, ok |-> TRUE,
                 value |-> <<TRUE>>]
    /\ UNCHANGED headline

\* deleteSession with the rows' other columns; the answer is rowCount > 0
deleteSessionTimes(id) ==
    LET rowCount == Cardinality({s \in DOMAIN sessions : s = id})
    IN  /\ reply.op = "none"
        /\ deleteSession(id)
        /\ columns' = Restrict(columns, DOMAIN columns \cap DOMAIN messages')
        /\ session_times' = Restrict(session_times, DOMAIN sessions')
        /\ reply' = [op |-> "deleteSession", arg |-> id, ok |-> TRUE,
                     value |-> <<rowCount > 0>>]
        /\ UNCHANGED headline

LifeExtras == {[thinking_tokens |-> 4, input_tokens |-> 3, tool_calls |-> <<>>]}

NextLife ==
    \/ reply.op = "none" /\ Tick /\ UNCHANGED untracked
    \/ createSessionTimes("alpha")
    \/ \E id \in SessionIds : endSession(id)
    \/ \E id \in SessionIds : deleteSessionTimes(id)
    \/ \E s \in SessionIds, c \in StatsContents, t \in Thinkings,
          e \in LifeExtras : captureMessageColumns(s, "user", c, t, e)
    \/ takeReply

SpecLife == Init /\ [][NextLife]_vars

\* ------------------------------------------------------------------ claims
\* the terms of a text: its words without the stop words, stemmed
Terms(text) ==
    {Stem(text[i]) : i \in {j \in 1..Len(text) : text[j] \notin StopWords}}

\* the terms of a stored message, content and thinking text together
MessageTerms(m) ==
    Terms(messages[m].content) \cup Terms(Coalesce(messages[m].thinking_content))

\* the message passes the call's sessionId / role filters
PassesFilters(m, sessionId, role) ==
    /\ (sessionId # NoSession => messages[m].session_id = sessionId)
    /\ (role # "" => messages[m].role = role)

\* stored messages that hold every term of q (q has one at least) and pass
\* the filters
MatchingMessages(q, sessionId, role) ==
    {m \in DOMAIN messages :
        /\ Terms(q) # {}
        /\ Terms(q) \subseteq MessageTerms(m)
        /\ PassesFilters(m, sessionId, role)}

ResultIds == {search.results[i].id : i \in 1..Len(search.results)}

\* C1: with no write between the two statements of a call, `total` is the
\* number of stored messages that match the query and the sessionId / role
\* filters, whatever limit and offset are.
C1_TotalCountsAllMatches ==
    (search.pc # "idle" /\ ~search.stale) =>
        search.total =
            Cardinality(MatchingMessages(search.query, search.sessionId,
                                         search.role))

\* C1 witness: two messages match and the page holds only one of them.
C1_Witness ==
    /\ search.pc = "done" /\ ~search.stale
    /\ search.total = 2 /\ Len(search.results) = 1

\* C2: once deleteSession(s) has returned true, no search returns a row of
\* session s and none counts a message of s in `total`.
C2_DeletedSessionNotSearchable ==
    search.pc # "idle" =>
        /\ \A i \in 1..Len(search.results) :
              search.results[i].session_id \notin deleted
        /\ \A m \in search.counted \cap DOMAIN messages :
              messages[m].session_id \notin deleted

\* C2 witness: a session with a message was deleted, and a later search
\* still finds a message of another session.
C2_Witness ==
    /\ search.pc = "done" /\ ~search.stale
    /\ deleted # {}
    /\ Cardinality(DOMAIN messages) < nextMsg
    /\ search.total = 1 /\ Len(search.results) = 1

\* C4: results come in non-increasing rank order, and adjacent results of
\* equal rank newest first.
C4_ResultsOrdered ==
    search.pc = "done" =>
        \A i \in 1..Len(search.results) :
            i < Len(search.results) =>
                /\ search.results[i].rank >= search.results[i + 1].rank
                /\ (search.results[i].rank = search.results[i + 1].rank =>
                        search.results[i].created_at >=
                            search.results[i + 1].created_at)

\* C4 witness: two results of equal rank, the newer one first.
C4_Witness ==
    /\ search.pc = "done"
    /\ Len(search.results) = 2
    /\ search.results[1].rank = search.results[2].rank
    /\ search.results[1].created_at > search.results[2].created_at

\* C4 second witness: two results of different rank.
C4_WitnessRank ==
    /\ search.pc = "done"
    /\ Len(search.results) = 2
    /\ search.results[1].rank > search.results[2].rank

\* the lexemes a stored message is indexed under with weight w
IndexedLexemes(m, w) == {e.lex : e \in {x \in search_vector[m] : x.w = w}}

\* C3: index entries exist for exactly the stored messages, and a stored
\* message's entries are those of its content (weight A) and of its thinking
\* text (weight B).
C3_IndexedIffStored ==
    /\ DOMAIN search_vector = DOMAIN messages
    /\ \A m \in DOMAIN messages :
          /\ IndexedLexemes(m, "A") = Terms(messages[m].content)
          /\ IndexedLexemes(m, "B") =
                 Terms(Coalesce(messages[m].thinking_content))

\* C3 witness: a message with thinking text is stored and indexed, after
\* another message went with its session.
C3_Witness ==
    /\ Cardinality(DOMAIN messages) < nextMsg
    /\ \E m \in DOMAIN messages :
          /\ messages[m].thinking_content # <<>>
          /\ IndexedLexemes(m, "B") # {}

\* C5 (as claimed): adjacent results that tie on rank and created_at come in
\* ascending id order.
C5_TiesInIdOrder ==
    search.pc = "done" =>
        \A i \in 1..Len(search.results) :
            (/\ i < Len(search.results)
             /\ search.results[i].rank = search.results[i + 1].rank
             /\ search.results[i].created_at = search.results[i + 1].created_at)
                => search.results[i].id < search.results[i + 1].id

\* the page takes in every candidate
FullPage ==
    /\ search.pc = "done"
    /\ search.offset = 0
    /\ search.limit >= Cardinality(Candidates(search.query, search.sessionId,
                                              search.role))

SeveralTerms == Cardinality(Terms(search.query)) >= 2

\* stored messages that hold at least one term of q and pass the filters
MessagesWithSomeTerm(q, sessionId, role) ==
    {m \in DOMAIN messages :
        /\ Terms(q) \cap MessageTerms(m) # {}
        /\ PassesFilters(m, sessionId, role)}

\* C6 (as claimed): for a query of several terms a full page returns every
\* message that holds at least one of the terms.
C6_UnionOfTerms ==
    (FullPage /\ SeveralTerms) =>
        MessagesWithSomeTerm(search.query, search.sessionId, search.role)
            \subseteq ResultIds

\* C6 (amended): for a query of several terms the candidates are the
\* messages that hold every term: each result holds them all, and a full
\* page returns all such messages.
C6_IntersectionOfTerms ==
    (search.pc = "done" /\ SeveralTerms) =>
        /\ ResultIds \subseteq
               MatchingMessages(search.query, search.sessionId, search.role)
        /\ FullPage =>
               ResultIds =
                   MatchingMessages(search.query, search.sessionId, search.role)

\* C6 witness: a two-term query returns the message that holds both terms
\* and leaves out a message that holds one of them.
C6_Witness ==
    /\ FullPage /\ SeveralTerms
    /\ Len(search.results) = 1
    /\ MessagesWithSomeTerm(search.query, search.sessionId, search.role)
           \ ResultIds # {}

\* C7: a stored message that holds none of the query's terms is in no page
\* and in no count.
C7_NoTermNoResult ==
    search.pc # "idle" =>
        \A m \in DOMAIN messages :
            Terms(search.query) \cap MessageTerms(m) = {} =>
                m \notin ResultIds /\ m \notin search.counted

\* C7 witness: a filtered search returns one message while another message
\* of the same session holds none of the terms.
C7_Witness ==
    /\ search.pc = "done"
    /\ search.sessionId # NoSession
    /\ Len(search.results) = 1
    /\ \E m \in DOMAIN messages :
          /\ PassesFilters(m, search.sessionId, search.role)
          /\ Terms(search.query) \cap MessageTerms(m) = {}

\* C8 (as claimed): a full page holds every stored message that passes the
\* filters and holds a term of the query.
C8_VisibleByAnyTerm ==
    FullPage =>
        \A m \in DOMAIN messages :
            (/\ PassesFilters(m, search.sessionId, search.role)
             /\ \E t \in Terms(search.query) : t \in MessageTerms(m))
                => \E i \in 1..Len(search.results) : search.results[i].id = m

\* C8 (amended): a full page holds every stored message that passes the
\* filters and holds all terms of the query; the messages stored when the
\* page statement runs include every message whose capture had returned
\* before the search was called and whose session was not deleted since.
C8_VisibleAfterCapture ==
    FullPage =>
        \A m \in DOMAIN messages :
            (/\ PassesFilters(m, search.sessionId, search.role)
             /\ Terms(search.query) # {}
             /\ \A t \in Terms(search.query) : t \in MessageTerms(m))
                => \E i \in 1..Len(search.results) : search.results[i].id = m

\* C8 witness: a message whose match needs its thinking text is returned,
\* also one captured between the two statements of the search.
C8_Witness ==
    /\ FullPage
    /\ search.stale
    /\ \E i \in 1..Len(search.results) :
          LET m == search.results[i].id
          IN  /\ ~(Terms(search.query) \subseteq Terms(messages[m].content))
              /\ m \notin search.counted

\* C9: every row a search returns is a whole message: the row is stored with
\* its session, carries that session's name, and is matched and ranked on all
\* of its content and thinking terms, also when a deleteSession ran between
\* the search's statements.
C9_NoHalfRemovedRow ==
    search.pc = "done" =>
        \A i \in 1..Len(search.results) :
            LET r == search.results[i]
            IN  /\ r.id \in DOMAIN messages
                /\ r.session_id = messages[r.id].session_id
                /\ r.session_id \in DOMAIN sessions
                /\ r.session_name = sessions[r.session_id].name
                /\ Terms(search.query) \subseteq MessageTerms(r.id)
                /\ r.rank =
                       ts_rank(SearchVector(messages[r.id].content,
                                            messages[r.id].thinking_content),
                               plainto_tsquery(search.query))

\* C9 witness: a session was deleted between the count and the page of a
\* search that counted two messages; the page holds the one that is left,
\* matched in content and thinking text.
C9_Witness ==
    /\ FullPage /\ search.stale
    /\ search.total = 2 /\ Len(search.results) = 1
    /\ deleted # {}
    /\ messages[search.results[1].id].thinking_content # <<>>

\* C10: a captureMessage call that fails leaves sessions, messages and index
\* as they were; one that succeeds adds exactly one row, indexed under the
\* terms of its content and of its thinking text.
C10_CaptureAllOrNothing ==
    [][/\ (~captureFailed /\ captureFailed') =>
              (store' = store /\ nextMsg' = nextMsg)
       /\ (nextMsg' # nextMsg) =>
              /\ ~captureFailed'
              /\ sessions' = sessions
              /\ DOMAIN messages' = DOMAIN messages \cup {nextMsg'}
              /\ DOMAIN search_vector' = DOMAIN search_vector \cup {nextMsg'}
              /\ \A m \in DOMAIN messages :
                    /\ messages'[m] = messages[m]
                    /\ search_vector'[m] = search_vector[m]
              /\ messages'[nextMsg'].role \in ROLES
              /\ messages'[nextMsg'].session_id \in DOMAIN sessions
              /\ {e.lex : e \in {x \in search_vector'[nextMsg'] : x.w = "A"}}
                     = Terms(messages'[nextMsg'].content)
              /\ {e.lex : e \in {x \in search_vector'[nextMsg'] : x.w = "B"}}
                     = Terms(Coalesce(messages'[nextMsg'].thinking_content))
      ]_vars

\* C10 witness: a call has failed while a session exists, next to a stored
\* message with thinking text.
C10_Witness ==
    /\ captureFailed
    /\ DOMAIN sessions # {}
    /\ \E m \in DOMAIN messages : messages[m].thinking_content # <<>>

\* ------------------------------------------------------ claims on analytics
\* a step in which a read function runs a statement: an analytics call is
\* answered (or throws), or searchMessages runs its count or its page query
ReadStep ==
    \/ reply.op = "none" /\ reply'.op # "none"
    \/ search.pc = "idle" /\ search'.pc = "counted"
    \/ search.pc = "counted" /\ search'.pc = "done"

\* C11: searchMessages, getOverallStats, getDailyStats, getToolUsageStats and
\* getSessionStats leave the sessions, the messages and every field of them
\* as they were, whether the call returns or throws.
C11_ReadsLeaveStoreUnchanged ==
    [][ReadStep => UNCHANGED <<sessions, messages, search_vector, columns>>]_vars

\* an analytics call has thrown over a store that holds a message
C11_Witness ==
    /\ reply.op \in {"getOverallStats", "getDailyStats", "getToolUsageStats",
                      "getSessionStats", "searchMessages"}
    /\ ~reply.ok
    /\ DOMAIN messages # {}

\* the messages of a session
MessagesOf(sessionId) ==
    {m \in DOMAIN messages : messages[m].session_id = sessionId}

\* C12: getSessionStats(sessionId) returns null whenever the session has no
\* message, a session that does not exist included; it never returns a stats
\* object with message_count 0 and duration 0.
C12_NoMessagesGivesNull ==
    (reply.op = "getSessionStats" /\ reply.ok) =>
        /\ MessagesOf(reply.arg) = {} => reply.value = <<>>
        /\ reply.value # <<>> =>
               ~(reply.value[1].message_count = 0
                    /\ reply.value[1].duration_minutes = 0)

\* the tool-call records that carry a name
NamedRecords == {c \in ToolCallRecords : tool_call(c).name # <<>>}

\* C13: getToolUsageStats returns no group for the tool-call records that
\* lack a name: no row has a null tool_name, and the rows' call_count and
\* error_count count the named records only.
C13_NoGroupForUnnamed ==
    (reply.op = "getToolUsageStats" /\ reply.ok) =>
        LET rows == reply.value
            I == DOMAIN rows
        IN  /\ \A i \in I : rows[i].tool_name # <<>>
            /\ SumOver(I, [i \in I |-> rows[i].call_count])
                   = Cardinality(NamedRecords)
            /\ SumOver(I, [i \in I |-> rows[i].error_count])
                   = Cardinality({c \in NamedRecords : tool_call(c).error # <<>>})

\* C14: for each distinct tool name over the tool-call records of all stored
\* messages, getToolUsageStats reports in one row call_count = the number of
\* records with that name, error_count = the number of those that carry an
\* error, and avg_duration_ms = the mean of duration_ms over those of them
\* that carry a duration.
C14_GroupPerToolName ==
    (reply.op = "getToolUsageStats" /\ reply.ok) =>
        \A n \in {tool_call(c).name : c \in NamedRecords} :
            LET rows == reply.value
                of == {c \in ToolCallRecords : tool_call(c).name = n}
                timed == {c \in of : tool_call(c).duration_ms # <<>>}
                total == SumOver(timed,
                            [c \in timed |-> tool_call(c).duration_ms[1]])
                at == {i \in DOMAIN rows : rows[i].tool_name = n}
            IN  /\ Cardinality(at) = 1
                /\ \A i \in at :
                      /\ rows[i].call_count = Cardinality(of)
                      /\ rows[i].error_count =
                            Cardinality({c \in of : tool_call(c).error # <<>>})
                      /\ IF timed = {} THEN rows[i].avg_duration_ms = <<>>
                         ELSE /\ rows[i].avg_duration_ms # <<>>
                              /\ rows[i].avg_duration_ms[1].num * Cardinality(timed)
                                    = total * rows[i].avg_duration_ms[1].den

\* three calls of bash, two with the durations 100 and 200, one with an error
\* and no duration: call_count 3, avg_duration_ms 150, error_count 1
C14_Witness ==
    /\ reply.op = "getToolUsageStats"
    /\ reply.ok
    /\ \E i \in DOMAIN reply.value :
          /\ reply.value[i].tool_name = <<"bash">>
          /\ reply.value[i].call_count = 3
          /\ reply.value[i].error_count = 1
          /\ reply.value[i].avg_duration_ms # <<>>
          /\ reply.value[i].avg_duration_ms[1].num
                = 150 * reply.value[i].avg_duration_ms[1].den

\* the messages that carry thinking tokens
Thoughtful == {m \in DOMAIN columns : columns[m].thinking_tokens > 0}

\* C15: avg_thinking_tokens_per_message of getOverallStats is the sum of
\* thinking_tokens over the messages with thinking_tokens > 0 divided by the
\* number of these messages, and 0 when there is none; messages with 0
\* thinking tokens do not enter it.
C15_AverageOverThinkingMessages ==
    (reply.op = "getOverallStats" /\ reply.ok) =>
        LET avg == reply.value.avg_thinking_tokens_per_message
            total == SumOver(Thoughtful,
                        [m \in Thoughtful |-> columns[m].thinking_tokens])
        IN  /\ avg.den > 0
            /\ IF Thoughtful = {} THEN avg.num = 0
               ELSE avg.num * Cardinality(Thoughtful) = total * avg.den

\* one message with 4 thinking tokens and one with none: the average is 4
C15_Witness ==
    /\ reply.op = "getOverallStats"
    /\ reply.ok
    /\ Cardinality(Thoughtful) = 1
    /\ Cardinality(DOMAIN columns) = 2
    /\ reply.value.avg_thinking_tokens_per_message.num
          = 4 * reply.value.avg_thinking_tokens_per_message.den

\* the messages created on calendar day d
CreatedOn(d) == {m \in DOMAIN messages : DATE(messages[m].created_at) = d}

\* C16: getDailyStats(days) returns exactly one row for each calendar day of
\* the last `days` days that has a message, with the day's number of distinct
\* sessions, its number of messages and its token sums, the newest day first;
\* a day without messages and a day before the window have no row.
C16_OneRowPerActiveDayInWindow ==
    (reply.op = "getDailyStats" /\ reply.ok) =>
        LET rows == reply.value
            today == DATE(now)
        IN  /\ {rows[i].date : i \in DOMAIN rows}
                  = {d \in today - reply.arg .. today : CreatedOn(d) # {}}
            /\ \A i, j \in DOMAIN rows : i < j => rows[i].date > rows[j].date
            /\ \A i \in DOMAIN rows :
                  LET M == CreatedOn(rows[i].date)
                  IN  /\ rows[i].messages = Cardinality(M)
                      /\ rows[i].sessions =
                            Cardinality({messages[m].session_id : m \in M})
                      /\ rows[i].thinking_tokens =
                            SumOver(M, [m \in M |-> columns[m].thinking_tokens])
                      /\ rows[i].input_tokens =
                            SumOver(M, [m \in M |-> columns[m].input_tokens])

\* all the messages are older than the window: the result is empty
C16_Witness ==
    /\ reply.op = "getDailyStats"
    /\ reply.ok
    /\ DOMAIN messages # {}
    /\ \A m \in DOMAIN messages :
          DATE(messages[m].created_at) < DATE(now) - reply.arg
    /\ reply.value = <<>>

\* -------------------------------------------- claims on filters and ranking
\* C17: a searchMessages call whose sessionId filter names no existing session
\* returns results = [] and total = 0, whatever the query; it throws nothing.
\* (A call returns: its pc reaches "counted" and "done" without an error
\* outcome; no write falls between its two statements.)
C17_UnknownSessionGivesEmpty ==
    (/\ search.pc \in {"counted", "done"}
     /\ ~search.stale
     /\ search.sessionId # NoSession
     /\ search.sessionId \notin DOMAIN sessions) =>
        /\ search.total = 0
        /\ search.pc = "done" => search.results = <<>>

\* the filter names a session that is gone, while a message of another
\* session matches the query
C17_Witness ==
    /\ search.pc = "done"
    /\ ~search.stale
    /\ search.sessionId # NoSession
    /\ search.sessionId \notin DOMAIN sessions
    /\ \E m \in DOMAIN messages :
          Matches(search_vector[m], plainto_tsquery(search.query))
    /\ search.results = <<>>
    /\ search.total = 0

\* how often the term t stands in a text
Occurrences(text, t) ==
    Cardinality({i \in 1..Len(text) :
                    text[i] \notin StopWords /\ Stem(text[i]) = t})

C18_ThinkingSnippetOnlyOnRequest ==
    headline.pc = "done" =>
        /\ headline.content_snippet # <<>>
        /\ headline.content_snippet[1]
              \in ts_headline(headline.content, headline.query)
        /\ headline.thinking_snippet # <<>> => headline.searchThinking
        /\ ~headline.searchThinking => headline.thinking_snippet = <<>>

\* a row whose thinking text holds the query, searched with
\* searchThinking = false
C18_Witness ==
    /\ headline.pc = "done"
    /\ ~headline.searchThinking
    /\ headline.thinking_content # <<>>
    /\ Matches(setweight(to_tsvector(headline.thinking_content[1]), "B"),
               plainto_tsquery(headline.query))
    /\ headline.thinking_snippet = <<>>
    /\ headline.content_snippet # <<>>

\* the words of a snippet
Unmarked(s) == SelectSeq(s, LAMBDA w : w \notin {StartSel, StopSel})

\* a snippet of a field keeps the word bounds
WithinBounds(field, q, snippet) ==
    /\ Len(Unmarked(snippet)) <= MaxWords
    /\ IF Len(field) < MinWords
       THEN Unmarked(snippet) = field
       ELSE Len(Unmarked(snippet)) >= MinWords
    /\ (\A i \in 1..Len(field) : ~Interesting(field, plainto_tsquery(q), i))
          => snippet = SubSeq(field, 1, Len(snippet))

\* C20: every snippet has at most MaxWords = 50 words, and at least
\* MinWords = 20 unless its field has fewer than 20 words, which is then
\* returned in full; for a field without a query term the snippet is a
\* leading window of the field without markers.
C20_SnippetWordBounds ==
    headline.pc = "done" =>
        /\ WithinBounds(headline.content, headline.query,
                        headline.content_snippet[1])
        /\ headline.thinking_snippet # <<>> =>
               WithinBounds(Coalesce(headline.thinking_content), headline.query,
                            headline.thinking_snippet[1])

\* a content of more than MaxWords words with a snippet of MaxWords words,
\* and a thinking text of more than MinWords words without a query term
\* with its first MinWords words as snippet
C20_Witness ==
    /\ headline.pc = "done"
    /\ Len(headline.content) > MaxWords
    /\ Len(Unmarked(headline.content_snippet[1])) = MaxWords
    /\ headline.thinking_snippet # <<>>
    /\ Len(Coalesce(headline.thinking_content)) > MinWords
    /\ headline.thinking_snippet[1]
          = SubSeq(headline.thinking_content[1], 1, MinWords)


\* ---------------------------------------------- claims on the search callers
\* C21: a negative limit or a negative offset is rejected before any
\* statement runs: whoever the caller is, a searchMessages call that has run
\* its count statement has limit >= 0 and offset >= 0.
C21_NegativePageRejected ==
    search.pc # "idle" => search.limit >= 0 /\ search.offset >= 0



\* a page without its thinking_snippet column
WithoutThinkingSnippet(page) ==
    [i \in 1..Len(page) |->
        [f \in DOMAIN page[i] \ {"thinking_snippet"} |-> page[i][f]]]

\* message m matches query q in its thinking text and not in its content
MatchesInThinkingOnly(m, q) ==
    /\ Matches(search_vector[m], plainto_tsquery(q))
    /\ ~Matches(setweight(to_tsvector(messages[m].content), "A"),
                plainto_tsquery(q))

\* C28: whatever a searchMessages call returns, the same call with the other
\* value of searchThinking can return, against the same store, the same rows
\* in the same order but for their thinking_snippet, with the same total; a
\* message that matches in its thinking text only is a candidate for either.
C28_FlagChangesSnippetOnly ==
    (search.pc = "done" /\ reply.ok) =>
        /\ WithoutThinkingSnippet(search.results)
              \in {WithoutThinkingSnippet(p) :
                      p \in PageResults(search.query, search.sessionId,
                                        search.role, search.limit,
                                        search.offset, ~reply.arg)}
        /\ ~search.stale =>
              search.total = CountQuery(search.query, search.sessionId,
                                        search.role, search.limit,
                                        search.offset)
        /\ \A m \in DOMAIN messages :
              MatchesInThinkingOnly(m, search.query) =>
                 \A f \in BOOLEAN :
                    \E p \in PageResults(search.query, search.sessionId,
                                         search.role, MaxMsgs, 0, f) :
                       \E i \in 1..Len(p) : p[i].id = m

\* a call without searchThinking has returned a message that matches in its
\* thinking text only, its thinking_snippet null
C28_Witness ==
    /\ search.pc = "done"
    /\ reply.ok
    /\ ~reply.arg
    /\ \E i \in 1..Len(search.results) :
          /\ MatchesInThinkingOnly(search.results[i].id, search.query)
          /\ search.results[i].thinking_snippet = <<>>

\* C29: a page has at most limit rows; with no write between the two
\* statements it has exactly min(limit, max(0, total - offset)) rows, and
\* has_more is true exactly when matches remain beyond the page.
C29_PageSizeAndHasMore ==
    (search.pc = "done" /\ reply.ok) =>
        /\ Len(search.results) <= search.limit
        /\ ~search.stale =>
              /\ Len(search.results)
                    = Min(search.limit, Max(0, search.total - search.offset))
              /\ reply.op = "tracker_search" =>
                    (reply.value[1] <=>
                        Cardinality(Candidates(search.query, search.sessionId,
                                               search.role))
                            > search.offset + search.limit)

\* tracker_search has returned a first page of one row with has_more true
C29_Witness ==
    /\ search.pc = "done"
    /\ reply.ok
    /\ reply.op = "tracker_search"
    /\ ~search.stale
    /\ Len(search.results) = 1
    /\ search.total = 2
    /\ reply.value = <<TRUE>>

\* --------------------------------------------- claims on the capture callers
\* C22: every stored message has a role among user, assistant and system and
\* non-negative thinking_tokens, input_tokens and output_tokens, whichever
\* caller captured it.
C22_StoredRoleAndTokensValid ==
    \A m \in DOMAIN messages :
        /\ messages[m].role \in ROLES
        /\ columns[m].thinking_tokens >= 0
        /\ columns[m].input_tokens >= 0
        /\ columns[m].output_tokens >= 0


\* the first present (not undefined) of a sequence of input fields, or
\* Undefined when none is
RECURSIVE FirstPresent(_)
FirstPresent(fields) ==
    IF Len(fields) = 0 THEN Undefined
    ELSE IF fields[1].type # "undefined" THEN fields[1]
    ELSE FirstPresent(Tail(fields))

\* the thinking text the claim describes: the first present of the four
\* fields, an array's (non-empty) items joined by line breaks, null (<<>>) for
\* an absent or empty value
CanonicalThinkingText(input) ==
    LET value == FirstPresent(<<input.thinking_content, input.thinking_text,
                                input.thinking, input.thoughts>>)
        text == Join(SelectSeq(value.items, LAMBDA s : s # <<>>))
    IN  IF text = <<>> THEN <<>> ELSE <<text>>

\* the thinking-token count the claim describes
CanonicalThinkingTokens(input) ==
    IF input.thinking_tokens # <<>> THEN input.thinking_tokens[1]
    ELSE IF input.thinking_token_count # <<>>
    THEN input.thinking_token_count[1]
    ELSE IF input.thoughts_token_count # <<>>
    THEN input.thoughts_token_count[1]
    ELSE 0

\* C25: the row captureMessage stores has as thinking text the first present
\* of thinking_content, thinking_text, thinking and thoughts, arrays joined by
\* line breaks and null for an absent or empty value, and as thinking-token
\* count the first present of thinking_tokens, thinking_token_count and
\* thoughts_token_count, 0 when none is present.
C25_CanonicalThinkingStored ==
    (reply.op \in {"POST /api/messages", "tracker_capture_message"}
        /\ reply.ok) =>
        /\ columns[reply.value[1]].thinking_content
              = CanonicalThinkingText(reply.arg)
        /\ columns[reply.value[1]].thinking_tokens
              = CanonicalThinkingTokens(reply.arg)


\* ------------------------------------------- claims on the session lifecycle
\* C23: every session whose ended_at is set has ended_at >= started_at, after
\* any sequence of createSession and endSession calls, endSession repeated on
\* the same session included.
C23_EndedNotBeforeStarted ==
    \A s \in DOMAIN session_times :
        session_times[s].ended_at # <<>> =>
            session_times[s].ended_at[1] >= session_times[s].started_at

\* an endSession has set ended_at later than the session was started
C23_Witness ==
    /\ reply.op = "endSession"
    /\ reply.arg \in DOMAIN session_times
    /\ reply.value # <<>>
    /\ session_times[reply.arg].ended_at[1] > session_times[reply.arg].started_at

\* the whole row of message m
MessageRow(m) == <<messages[m], columns[m], search_vector[m]>>

\* C24: no step changes any column of a stored message, and a message leaves
\* the store only by a deleteSession on its session, which takes all the
\* messages of that session and none of any other.
C24_MessagesImmutable ==
    [][/\ \A m \in DOMAIN messages \cap DOMAIN messages' :
             MessageRow(m)' = MessageRow(m)
       /\ \A m \in DOMAIN messages \ DOMAIN messages' :
             /\ reply'.op = "deleteSession"
             /\ reply'.arg = messages[m].session_id
       /\ (reply.op = "none" /\ reply'.op = "deleteSession") =>
             DOMAIN messages' =
                {m \in DOMAIN messages : messages[m].session_id # reply'.arg}]_vars

\* a deleteSession has removed the messages of its session and left a
\* message of another session in the store
C24_Witness ==
    /\ reply.op = "deleteSession"
    /\ reply.value = <<TRUE>>
    /\ deleted = {reply.arg}
    /\ nextMsg = 2
    /\ Cardinality(DOMAIN messages) = 1

\* C26: endSession is idempotent: a call on a session that has been ended
\* already leaves the session as the first call left it, with the same
\* ended_at.
C26_EndSessionIdempotent ==
    [][(/\ reply.op = "none"
        /\ reply'.op = "endSession"
        /\ reply'.arg \in DOMAIN session_times
        /\ session_times[reply'.arg].ended_at # <<>>)
          => session_times' = session_times]_vars

\* C27: in every reachable state each message's session_id is the id of a
\* stored session, each row of columns and of the index belongs to a stored
\* message, captureMessage interleaved with deleteSession included.
C27_ReferentialIntegrity ==
    /\ \A m \in DOMAIN messages : messages[m].session_id \in DOMAIN sessions
    /\ DOMAIN columns = DOMAIN messages
    /\ DOMAIN search_vector = DOMAIN messages
    /\ DOMAIN session_times = DOMAIN sessions

\* a captureMessage has been refused after a deleteSession, while a message
\* of another session is stored
C27_Witness ==
    /\ captureFailed
    /\ deleted # {}
    /\ DOMAIN messages # {}

\* C30: endSession and deleteSession on an id that names no session answer
\* null and false and leave every session and message as it was;
\* deleteSession answers true exactly when the session existed, so false for
\* an id it has already deleted.
C30_NotFoundChangesNothing ==
    [][(reply.op = "none" /\ reply'.op \in {"endSession", "deleteSession"}) =>
          /\ reply'.arg \notin DOMAIN sessions =>
                /\ reply'.value =
                      IF reply'.op = "endSession" THEN <<>> ELSE <<FALSE>>
                /\ UNCHANGED <<sessions, messages, search_vector, columns,
                               session_times>>
          /\ reply'.op = "deleteSession" =>
                /\ reply'.value = <<reply'.arg \in DOMAIN sessions>>
                /\ reply'.arg \in deleted => reply'.value = <<FALSE>>]_vars

\* a second deleteSession of the same id has answered false, a message of
\* another session being stored
C30_Witness ==
    /\ reply.op = "deleteSession"
    /\ reply.arg \in deleted
    /\ reply.value = <<FALSE>>
    /\ DOMAIN messages # {}

====
